---- MODULE Spec2Model ----
(***************************************************************************)
(* Unary gRPC-Web call over XMLHttpRequest: src/src/http/http.ts.          *)
(*                                                                         *)
(* One grpcHTTP client (one `cancels` registry) issues up to MaxCalls      *)
(* calls.  Each call owns an xhr, an async promise executor and the        *)
(* .then/.then/.catch chain behind it.  The transport (XMLHttpRequest) is  *)
(* the environment: once a request was sent it may raise timeout, abort,   *)
(* error and load events, in any order and repeatedly; xhr.abort() follows *)
(* the XMLHttpRequest standard (it dispatches the abort event              *)
(* synchronously when the request is in flight and does nothing when the   *)
(* request was not sent yet or is already done).                           *)
(***************************************************************************)
EXTENDS Integers, Sequences, FiniteSets, TLC

\* ------------------------------------------------------------------ bounds
MaxCalls == 2
MaxEvents == 2

Calls == 1..MaxCalls

\* ------------------------------------------------------ cancel handles
\* LocalGRPC.cancel: absent, a string key, or an object made by grpcCancel.
NoCancel == "none"
Keys == {"k"}
Handles == {"h"}
CancelOptions == {NoCancel} \cup Keys \cup Handles

isString(cancel) == cancel \in Keys
isPresent(cancel) == cancel # NoCancel

\* ------------------------------------------------------------ outcomes
\* A field that the code leaves out of the error object.
Absent == -1000
\* Number(x) of a text that is no number.
NaN == -999

NoData == <<"absent", <<>>>>
NoMessage == "<absent>"

\* GOutput: { success: true, data } | { success: false, error: { message,
\* data, httpStatus, grpcCode } }.  `transformed` marks a value returned by
\* the user's transformResponse.
Success(data) ==
    [success |-> TRUE, message |-> NoMessage, data |-> data,
     httpStatus |-> Absent,
     grpcCode |-> Absent, transformed |-> FALSE]

Failure(message, data, httpStatus, grpcCode) ==
    [success |-> FALSE, message |-> message, data |-> data,
     httpStatus |-> httpStatus, grpcCode |-> grpcCode, transformed |-> FALSE]

\* The pending promise.
NoOutcome ==
    [success |-> FALSE, message |-> "<pending>", data |-> NoData,
     httpStatus |-> Absent, grpcCode |-> Absent, transformed |-> FALSE]

\* --------------------------------------------------------- Status Mapper
StatusCode ==
    [OK |-> 0, CANCELLED |-> 1, UNKNOWN |-> 2, INVALID_ARGUMENT |-> 3,
     DEADLINE_EXCEEDED |-> 4, NOT_FOUND |-> 5, ALREADY_EXISTS |-> 6,
     PERMISSION_DENIED |-> 7, RESOURCE_EXHAUSTED |-> 8,
     FAILED_PRECONDITION |-> 9, ABORTED |-> 10, OUT_OF_RANGE |-> 11,
     UNIMPLEMENTED |-> 12, INTERNAL |-> 13, UNAVAILABLE |-> 14,
     DATA_LOSS |-> 15, UNAUTHENTICATED |-> 16]

fromHttpStatus(status) ==
    CASE status = 400 -> StatusCode.INVALID_ARGUMENT
      [] status = 401 -> StatusCode.UNAUTHENTICATED
      [] status = 403 -> StatusCode.PERMISSION_DENIED
      [] status = 404 -> StatusCode.NOT_FOUND
      [] status = 409 -> StatusCode.ABORTED
      [] status = 412 -> StatusCode.FAILED_PRECONDITION
      [] status = 429 -> StatusCode.RESOURCE_EXHAUSTED
      [] status = 499 -> StatusCode.CANCELLED
      [] status = 500 -> StatusCode.UNKNOWN
      [] status = 501 -> StatusCode.UNIMPLEMENTED
      [] status = 503 -> StatusCode.UNAVAILABLE
      [] status = 504 -> StatusCode.DEADLINE_EXCEEDED
      [] OTHER -> StatusCode.UNKNOWN

\* ---------------------------------------------------------- Frame Parser
\* A frame: 1 flag byte, 4 bytes of big-endian length, then the payload.
HEADER_SIZE == 5
TRAILER_BIT == 128

MESSAGE == "MESSAGE"
TRAILERS == "TRAILERS"

SubBytes(bytes, from, len) == [i \in 1..len |-> bytes[from + i - 1]]

\* getUint32 at header offset 1, big endian.
readLength(bytes, pos) ==
    ((bytes[pos + 1] * 256 + bytes[pos + 2]) * 256 + bytes[pos + 3]) * 256
        + bytes[pos + 4]

isTrailer(flag) == (flag \div TRAILER_BIT) % 2 = 1

\* Trailer text.  Each payload byte stands for one word of the text; a line
\* is `key COLON value`, lines are separated by NL.
NL == 10
COLON == 58

Word(b) ==
    CASE b = 1 -> "grpc-status"
      [] b = 2 -> "grpc-message"
      [] b = 3 -> "Grpc-Status"
      [] b = 4 -> "x-other"
      [] b = 48 -> "0"
      [] b = 51 -> "3"
      [] b = 45 -> "-1"
      [] b = 120 -> "abc"
      [] b = 109 -> "bad arg"
      [] OTHER -> "?"

toLowerCase(s) == IF s = "Grpc-Status" THEN "grpc-status" ELSE s

\* Number(text) of JavaScript, on the words above.
Number(s) ==
    CASE s = "0" -> 0
      [] s = "3" -> 3
      [] s = "-1" -> -1
      [] s = "" -> 0
      [] OTHER -> NaN

GRPC_STATUS == "grpc-status"
GRPC_MESSAGE == "grpc-message"

NoHeaders == [k \in {} |-> ""]

\* One line of the text: adds key -> value to the mapping (the last
\* occurrence of a key wins); a line without COLON adds nothing.
parseLine(map, line) ==
    IF \E i \in 1..Len(line) : line[i] = COLON
    THEN LET c == CHOOSE i \in 1..Len(line) :
                      line[i] = COLON /\ \A j \in 1..(i - 1) : line[j] # COLON
             key == IF c > 1 THEN toLowerCase(Word(line[1])) ELSE ""
             value == IF c < Len(line) THEN Word(line[c + 1]) ELSE ""
         IN  [k \in (DOMAIN map) \cup {key} |->
                  IF k = key THEN value ELSE map[k]]
    ELSE map

RECURSIVE headersParse(_, _, _)
headersParse(payload, map, line) ==
    IF payload = <<>> THEN parseLine(map, line)
    ELSE IF Head(payload) = NL
         THEN headersParse(Tail(payload), parseLine(map, line), <<>>)
         ELSE headersParse(Tail(payload), map, Append(line, Head(payload)))

Chunk(flag, payload) ==
    IF isTrailer(flag)
    THEN [chunkType |-> TRAILERS, data |-> <<>>,
          trailers |-> headersParse(payload, NoHeaders, <<>>)]
    ELSE [chunkType |-> MESSAGE, data |-> payload, trailers |-> NoHeaders]

\* chunkParse: [ok |-> TRUE, chunks |-> the frames in order], or ok = FALSE
\* for a buffer that ends inside a declared frame (the framing error).
\* Fewer than HEADER_SIZE bytes left declare no frame: parsing stops.
RECURSIVE chunkParseFrom(_, _, _)
chunkParseFrom(bytes, pos, chunks) ==
    IF Len(bytes) - pos + 1 < HEADER_SIZE
    THEN [ok |-> TRUE, chunks |-> chunks]
    ELSE LET len == readLength(bytes, pos)
         IN  IF Len(bytes) - pos + 1 < HEADER_SIZE + len
             THEN [ok |-> FALSE, chunks |-> <<>>]
             ELSE chunkParseFrom(bytes, pos + HEADER_SIZE + len,
                      Append(chunks,
                             Chunk(bytes[pos],
                                   SubBytes(bytes, pos + HEADER_SIZE, len))))

chunkParse(bytes) == chunkParseFrom(bytes, 1, <<>>)

\* --------------------------------------------------------------- codec
\* Decode(field.decode, bytes): the codec rejects a payload holding BadByte.
BadByte == 255
DecodeThrows(payload) == \E i \in 1..Len(payload) : payload[i] = BadByte
Decode(payload) == <<"decoded", payload>>

\* ----------------------------------------------------------- transport
\* What the xhr exposes when an event is raised: status, response body
\* (readable or not) and response headers.
\* toInt8(xhr): the body as bytes, or nothing for an empty or unreadable one.
NoBytes == <<-1>>
toInt8(xhr) == IF xhr.readable /\ xhr.body # <<>> THEN xhr.body ELSE NoBytes

bufToString(xhr) == <<"bufToString", IF xhr.readable THEN xhr.body ELSE <<>>>>
safeJSON(message) == <<"safeJSON(message)", <<>>>>

\* The xhr as an event listener sees it.
Xhr(status, readable, body, headers) ==
    [status |-> status, readable |-> readable, body |-> body,
     headers |-> headers]

getResponseHeader(xhr, name) == xhr.headers[name]
hasResponseHeader(xhr, name) == name \in DOMAIN xhr.headers

\* ------------------------------------------------------ event listeners
wrongStatusOffByOne(status) == status < 200 \/ status > 300
wrongStatusNever(status) == status < 200 /\ status >= 300

\* load listener, line 127.
wrongStatus(status) == status < 200 \/ status >= 300

noByteSourceUnchecked(byteSource) == FALSE

\* load listener, line 142: !byteSource.
noByteSource(byteSource) == byteSource = NoBytes

zeroFramesCodeZero(xhr) ==
    LET present == hasResponseHeader(xhr, GRPC_STATUS)
        message == IF present /\ hasResponseHeader(xhr, GRPC_MESSAGE)
                   THEN getResponseHeader(xhr, GRPC_MESSAGE)
                   ELSE "Failed to parse GRPC status"
        grpcCode == IF present
                    THEN Number(getResponseHeader(xhr, GRPC_STATUS))
                    ELSE StatusCode.OK
    IN  Failure(message, safeJSON(message), xhr.status, grpcCode)

\* load listener, lines 154-165: no frame at all.
zeroFrames(xhr) ==
    LET present == hasResponseHeader(xhr, GRPC_STATUS)
        message == IF present
                   THEN IF hasResponseHeader(xhr, GRPC_MESSAGE)
                        THEN getResponseHeader(xhr, GRPC_MESSAGE) ELSE ""
                   ELSE "Failed to parse GRPC status"
        grpcCode == IF present
                    THEN Number(getResponseHeader(xhr, GRPC_STATUS))
                    ELSE Absent
    IN  Failure(message, safeJSON(message), xhr.status, grpcCode)

firstFrameTypesSwapped(xhr, d) ==
    IF d.chunkType = TRAILERS
    THEN Success(Decode(d.data))
    ELSE Failure("", safeJSON(""), xhr.status, StatusCode.OK)

firstFrameZeroInvalid(xhr, d) ==
    IF d.chunkType = MESSAGE
    THEN IF DecodeThrows(d.data)
         THEN Failure("Decode error", <<"decode error", <<>>>>, xhr.status,
                      Absent)
         ELSE Success(Decode(d.data))
    ELSE LET trailers == d.trailers
             message == IF GRPC_MESSAGE \in DOMAIN trailers
                        THEN trailers[GRPC_MESSAGE] ELSE ""
             grpcCode == IF GRPC_STATUS \in DOMAIN trailers
                         THEN LET code == Number(trailers[GRPC_STATUS])
                              IN  IF code > 0 THEN code
                                  ELSE fromHttpStatus(xhr.status)
                         ELSE StatusCode.OK
         IN  Failure(message, safeJSON(message), xhr.status, grpcCode)

\* load listener, lines 167-201: the first frame decides.
firstFrame(xhr, d) ==
    IF d.chunkType = MESSAGE
    THEN IF DecodeThrows(d.data)
         THEN Failure("Decode error", <<"decode error", <<>>>>, xhr.status,
                      Absent)
         ELSE Success(Decode(d.data))
    ELSE LET trailers == d.trailers
             message == IF GRPC_MESSAGE \in DOMAIN trailers
                        THEN trailers[GRPC_MESSAGE] ELSE ""
             grpcCode == IF GRPC_STATUS \in DOMAIN trailers
                         THEN LET code == Number(trailers[GRPC_STATUS])
                              IN  IF code >= 0 THEN code
                                  ELSE fromHttpStatus(xhr.status)
                         ELSE StatusCode.OK
         IN  Failure(message, safeJSON(message), xhr.status, grpcCode)

onreadyParseErrorSwallowed(xhr) ==
    IF wrongStatus(xhr.status)
    THEN Failure("XHR wrong status", bufToString(xhr), xhr.status,
                 fromHttpStatus(xhr.status))
    ELSE LET byteSource == toInt8(xhr)
         IN  IF noByteSource(byteSource)
             THEN Failure("GRPC no bytes", NoData, Absent, Absent)
             ELSE LET data == chunkParse(byteSource)
                  IN  IF Len(data.chunks) = 0
                      THEN zeroFrames(xhr)
                      ELSE firstFrame(xhr, data.chunks[1])

onready(xhr) ==
    IF wrongStatus(xhr.status)
    THEN Failure("XHR wrong status", bufToString(xhr), xhr.status,
                 fromHttpStatus(xhr.status))
    ELSE LET byteSource == toInt8(xhr)
         IN  IF noByteSource(byteSource)
             THEN Failure("GRPC no bytes", NoData, Absent, Absent)
             ELSE LET data == chunkParse(byteSource)
                  IN  IF ~data.ok
                      THEN Failure("GRPC parsing error",
                                   <<"framing error", <<>>>>, Absent, Absent)
                      ELSE IF Len(data.chunks) = 0
                           THEN zeroFrames(xhr)
                           ELSE firstFrame(xhr, data.chunks[1])

ontimeout(xhr) == Failure("timeout", <<"xhr.timeout", <<>>>>, Absent, Absent)

onabort(xhr) ==
    Failure("cancelled", NoData, xhr.status, StatusCode.CANCELLED)

onerror(xhr) ==
    Failure("XHR error", bufToString(xhr), xhr.status,
            fromHttpStatus(xhr.status))

\* The argument a listener hands to `callback`.
listenerOutcome(ev) ==
    CASE ev.type = "timeout" -> ontimeout(ev.xhr)
      [] ev.type = "abort" -> onabort(ev.xhr)
      [] ev.type = "error" -> onerror(ev.xhr)
      [] ev.type = "load" -> onready(ev.xhr)

\* .catch of the chain, lines 246-250.
catchError(error) == Failure(NoMessage, error, Absent, Absent)

\* ------------------------------------------------------------------ state
VARIABLES
    config,       \* ConfigGRPC: which of transformRequest, transformResponse,
                  \* devtool the client was built with
    started,      \* number of calls issued so far (calls 1..started)
    cancelOpt,    \* cancelOpt[c]: the `cancel` option of call c
    pc,           \* pc[c]: where the promise executor of call c stands
    sendData,     \* sendData[c]: "values" or the request transform's result
    first,        \* first[c]: the first transport event raised for c
    count,        \* count[c]: how many transport events were raised for c
    outcome,      \* outcome[c]: the value the promise was resolved with
    chain,        \* chain[c]: where the .then/.then/.catch chain stands
    delivered,    \* delivered[c]: what the caller's promise settled with
    reports,      \* reports[c]: the 'unary' reports sent to the devtool
    cancels,      \* cancels[k]: the call whose abortXHR is stored (0: none)
    handleAbort,  \* handleAbort[h]: the call whose abortXHR is in h.abort
    abortCalled,  \* abortCalled[c]: abortXHR of call c was invoked
    replaced      \* replaced[c]: a later call reused c's key or handle
                  \* while c was in flight and not yet resolved

vars == <<config, started, cancelOpt, pc, sendData, first, count, outcome, chain,
          delivered, reports, cancels, handleAbort, abortCalled, replaced>>

\* An xhr that holds no response: status 0, nothing to read.
AbortedXhr == Xhr(0, FALSE, <<>>, NoHeaders)
NoEvent == [type |-> "none", xhr |-> AbortedXhr]

Pending == [settled |-> "pending", value |-> NoOutcome]
Fulfilled(v) == [settled |-> "fulfilled", value |-> v]
Rejected(e) == [settled |-> "rejected", value |-> catchError(e)]

Init ==
    /\ config \in [transformRequest : BOOLEAN, transformResponse : BOOLEAN,
                   devtool : BOOLEAN]
    /\ started = 0
    /\ cancelOpt = [c \in Calls |-> NoCancel]
    /\ pc = [c \in Calls |-> "idle"]
    /\ sendData = [c \in Calls |-> "values"]
    /\ first = [c \in Calls |-> NoEvent]
    /\ count = [c \in Calls |-> 0]
    /\ outcome = [c \in Calls |-> NoOutcome]
    /\ chain = [c \in Calls |-> "pending"]
    /\ delivered = [c \in Calls |-> Pending]
    /\ reports = [c \in Calls |-> <<>>]
    /\ cancels = [k \in Keys |-> 0]
    /\ handleAbort = [h \in Handles |-> 0]
    /\ abortCalled = [c \in Calls |-> FALSE]
    /\ replaced = [c \in Calls |-> FALSE]

\* ---------------------------------------------------- shared-state steps
\* The part of the state that listeners and abort callbacks touch.
Shared ==
    [cancels |-> cancels, handleAbort |-> handleAbort, outcome |-> outcome,
     first |-> first, count |-> count, chain |-> chain,
     abortCalled |-> abortCalled]

tmCancelKeepsEntry(s, c) == s

tmCancelHandleOnly(s, c) ==
    IF isPresent(cancelOpt[c]) /\ ~isString(cancelOpt[c])
    THEN [s EXCEPT !.handleAbort[cancelOpt[c]] = 0]
    ELSE s

\* tmCancel of call c, lines 62-70.
tmCancel(s, c) ==
    IF isPresent(cancelOpt[c])
    THEN IF isString(cancelOpt[c])
         THEN [s EXCEPT !.cancels[cancelOpt[c]] = 0]
         ELSE [s EXCEPT !.handleAbort[cancelOpt[c]] = 0]
    ELSE s

callbackOverwrites(s, c, o) ==
    [s EXCEPT !.outcome[c] = o, !.chain[c] = "resolved"]

\* callback(o) of call c: the resolve function of the promise, line 75.  A
\* promise settles once; later calls of its resolve function do nothing.
callback(s, c, o) ==
    IF s.outcome[c] = NoOutcome
    THEN [s EXCEPT !.outcome[c] = o, !.chain[c] = "resolved"]
    ELSE s

\* A transport event of call c reaching its listener, lines 98-203.
listener(s, c, ev) ==
    callback([tmCancel(s, c) EXCEPT
                 !.first[c] = IF s.count[c] = 0 THEN ev ELSE @,
                 !.count[c] = @ + 1],
             c, listenerOutcome(ev))


\* xhr.abort() of call c: with the request in flight the abort event is
\* dispatched at once; before send() and after completion it does nothing.
xhrAbort(s, c) ==
    IF pc[c] = "sent" /\ s.count[c] = 0
    THEN listener(s, c, [type |-> "abort", xhr |-> AbortedXhr])
    ELSE s

abortXHRResolves(s, c) ==
    callback([s EXCEPT !.abortCalled[c] = TRUE], c, onabort(AbortedXhr))

\* abortXHR of call c, line 52.
abortXHR(s, c) == xhrAbort([s EXCEPT !.abortCalled[c] = TRUE], c)

Apply(s) ==
    /\ cancels' = s.cancels
    /\ handleAbort' = s.handleAbort
    /\ outcome' = s.outcome
    /\ first' = s.first
    /\ count' = s.count
    /\ chain' = s.chain
    /\ abortCalled' = s.abortCalled

\* Lines 42-45: a string key that is taken cancels its holder.
replacePrevious(s, cancel) ==
    IF isString(cancel) /\ s.cancels[cancel] # 0
    THEN [abortXHR(s, s.cancels[cancel]) EXCEPT !.cancels[cancel] = 0]
    ELSE s

\* Lines 54-60: abortXHR of call c goes into the registry or the handle.
register(s, c, cancel) ==
    IF isPresent(cancel)
    THEN IF isString(cancel)
         THEN [s EXCEPT !.cancels[cancel] = c]
         ELSE [s EXCEPT !.handleAbort[cancel] = c]
    ELSE s

\* Lines 210-229: Encode, encodeRequest, xhr.send; Encode may throw.
sendRequest(encodeOk) == IF encodeOk THEN "sent" ELSE "Encode threw"

InFlight(c) == pc[c] \in {"transformRequest", "sent"} /\ outcome[c] = NoOutcome

\* ---------------------------------------------------------------- actions
\* grpc(field, values, {cancel}): lines 42-230 up to the first suspension.
StartCall(c, cancel, encodeOk) ==
    /\ c = started + 1
    /\ started' = c
    /\ cancelOpt' = [cancelOpt EXCEPT ![c] = cancel]
    /\ replaced' = [a \in Calls |->
                      replaced[a] \/ (/\ a <= started
                                      /\ isPresent(cancel)
                                      /\ cancelOpt[a] = cancel
                                      /\ InFlight(a))]
    /\ Apply(register(replacePrevious(Shared, cancel), c, cancel))
    /\ pc' = [pc EXCEPT ![c] = IF config.transformRequest
                                THEN "transformRequest"
                                ELSE sendRequest(encodeOk)]
    /\ UNCHANGED <<config, sendData, delivered, reports>>

\* Line 207 resumes: the request transform returned a value, returned
\* nothing, or threw; then lines 210-229.
TransformRequestDone(c, result, encodeOk) ==
    /\ pc[c] = "transformRequest"
    /\ IF result = "throw"
       THEN /\ pc' = [pc EXCEPT ![c] = "transformRequest threw"]
            /\ UNCHANGED sendData
       ELSE /\ sendData' = [sendData EXCEPT ![c] =
                               IF result = "value" THEN "transformed"
                               ELSE "values"]
            /\ pc' = [pc EXCEPT ![c] = sendRequest(encodeOk)]
    /\ UNCHANGED <<config, started, cancelOpt, first, count, outcome, chain,
                   delivered, reports, cancels, handleAbort, abortCalled,
                   replaced>>

\* The transport raises an event for a request it was handed.
RaiseEvent(c, ev) ==
    /\ pc[c] = "sent"
    /\ count[c] < MaxEvents
    /\ Apply(listener(Shared, c, ev))
    /\ UNCHANGED <<config, started, cancelOpt, pc, sendData, delivered,
                   reports, replaced>>

\* The caller invokes a handle made by grpcCancel, lines 13-16.
InvokeCancel(h) ==
    /\ Apply([(IF handleAbort[h] # 0 THEN abortXHR(Shared, handleAbort[h])
               ELSE Shared) EXCEPT !.handleAbort[h] = 0])
    /\ UNCHANGED <<config, started, cancelOpt, pc, sendData, delivered,
                   reports, replaced>>

ReportSuccessOnly(c) ==
    /\ chain[c] = "resolved"
    /\ chain' = [chain EXCEPT ![c] = "reported"]
    /\ reports' = [reports EXCEPT ![c] =
                      IF config.devtool /\ outcome[c].success
                      THEN Append(@, [methodType |-> "unary",
                                      request |-> sendData[c],
                                      outcome |-> outcome[c]])
                      ELSE @]
    /\ UNCHANGED <<config, started, cancelOpt, pc, sendData, first, count,
                   outcome, delivered, cancels, handleAbort, abortCalled,
                   replaced>>

\* First .then, lines 231-244.
Report(c) ==
    /\ chain[c] = "resolved"
    /\ chain' = [chain EXCEPT ![c] = "reported"]
    /\ reports' = [reports EXCEPT ![c] =
                      IF config.devtool
                      THEN Append(@, [methodType |-> "unary",
                                      request |-> sendData[c],
                                      outcome |-> outcome[c]])
                      ELSE @]
    /\ UNCHANGED <<config, started, cancelOpt, pc, sendData, first, count, outcome,
                   delivered, cancels, handleAbort, abortCalled, replaced>>

caughtRethrown(error) == Rejected(error)

\* What the chain settles with when the second .then's handler threw or its
\* promise rejected: the .catch handler, lines 246-250.
caught(error) == Fulfilled(catchError(error))


TransformError == <<"transformResponse error", <<>>>>

\* Second .then, line 245: without a response transform the data passes.
CallTransformResponse(c) ==
    /\ chain[c] = "reported"
    /\ IF config.transformResponse
       THEN /\ chain' = [chain EXCEPT ![c] = "transformResponse"]
            /\ UNCHANGED delivered
       ELSE /\ chain' = [chain EXCEPT ![c] = "done"]
            /\ delivered' = [delivered EXCEPT ![c] = Fulfilled(outcome[c])]
    /\ UNCHANGED <<config, started, cancelOpt, pc, sendData, first, count, outcome,
                   reports, cancels, handleAbort, abortCalled, replaced>>

\* The response transform finishes: it returns the data, returns a value of
\* its own, or throws.
TransformResponseDone(c, result) ==
    /\ chain[c] = "transformResponse"
    /\ chain' = [chain EXCEPT ![c] = IF result = "throw" THEN "caught"
                                      ELSE "done"]
    /\ delivered' = [delivered EXCEPT ![c] =
                        CASE result = "same" -> Fulfilled(outcome[c])
                          [] result = "value" ->
                               Fulfilled([outcome[c] EXCEPT
                                             !.transformed = TRUE])
                          [] result = "throw" -> caught(TransformError)]
    /\ UNCHANGED <<config, started, cancelOpt, pc, sendData, first, count, outcome,
                   reports, cancels, handleAbort, abortCalled, replaced>>

\* ------------------------------------------------------ transport inputs
Frame(flag, payload) ==
    <<flag, 0, 0, 0, Len(payload)>> \o payload

MessageFrame == Frame(0, <<7>>)
TrailersOk == Frame(TRAILER_BIT, <<1, COLON, 48>>)

Responses == { Xhr(200, TRUE, MessageFrame \o TrailersOk, NoHeaders) }

TransportEvents ==
    { [type |-> "timeout", xhr |-> Xhr(0, FALSE, <<>>, NoHeaders)],
      [type |-> "abort", xhr |-> AbortedXhr],
      [type |-> "error", xhr |-> Xhr(0, FALSE, <<>>, NoHeaders)],
      [type |-> "error", xhr |-> Xhr(503, FALSE, <<>>, NoHeaders)] }
    \cup { [type |-> "load", xhr |-> x] : x \in Responses }

Next ==
    \/ \E c \in Calls, cancel \in CancelOptions, encodeOk \in BOOLEAN :
           StartCall(c, cancel, encodeOk)
    \/ \E c \in Calls, result \in {"value", "falsy", "throw"},
          encodeOk \in BOOLEAN :
           TransformRequestDone(c, result, encodeOk)
    \/ \E c \in Calls, ev \in TransportEvents : RaiseEvent(c, ev)
    \/ \E h \in Handles : InvokeCancel(h)
    \/ \E c \in Calls : Report(c)
    \/ \E c \in Calls : CallTransformResponse(c)
    \/ \E c \in Calls, result \in {"same", "value", "throw"} :
           TransformResponseDone(c, result)

Spec == Init /\ [][Next]_vars

\* ------------------------------------------- one call, any load response
Statuses == {0, 199, 200, 204, 299, 300, 404, 418, 500, 503}

Bodies ==
    { <<>>,
      <<0>>,
      MessageFrame,
      MessageFrame \o TrailersOk,
      Frame(0, <<BadByte>>) \o TrailersOk,
      Frame(0, <<>>),
      Frame(TRAILER_BIT, <<1, COLON, 51, NL, 2, COLON, 109>>),
      Frame(TRAILER_BIT, <<3, COLON, 51>>),
      Frame(TRAILER_BIT, <<2, COLON, 109>>),
      Frame(TRAILER_BIT, <<1, COLON, 45>>),
      Frame(TRAILER_BIT, <<1, COLON, 120, NL, 2, COLON, 109>>),
      Frame(TRAILER_BIT, <<1, COLON, 48, NL, 1, COLON, 51>>),
      Frame(TRAILER_BIT, <<>>),
      TrailersOk \o MessageFrame,
      <<0, 0, 0, 0, 2, 7>>,
      MessageFrame \o <<TRAILER_BIT, 0, 0, 1, 0, 1>> }

HeaderSets ==
    { NoHeaders,
      [k \in {GRPC_STATUS} |-> "3"],
      [k \in {GRPC_STATUS} |-> "abc"],
      [k \in {GRPC_MESSAGE} |-> "bad arg"],
      [k \in {GRPC_STATUS, GRPC_MESSAGE} |->
          IF k = GRPC_STATUS THEN "3" ELSE "bad arg"] }

LoadEvents ==
    { [type |-> "load", xhr |-> Xhr(st, r, b, h)] :
        st \in Statuses, r \in BOOLEAN, b \in Bodies, h \in HeaderSets }

NextLoad ==
    \/ \E encodeOk \in BOOLEAN : StartCall(1, NoCancel, encodeOk)
    \/ \E result \in {"value", "falsy", "throw"}, encodeOk \in BOOLEAN :
           TransformRequestDone(1, result, encodeOk)
    \/ \E ev \in LoadEvents \cup TransportEvents :
           count[1] = 0 /\ RaiseEvent(1, ev)
    \/ \E ev \in TransportEvents : count[1] > 0 /\ RaiseEvent(1, ev)
    \/ Report(1)
    \/ CallTransformResponse(1)
    \/ \E result \in {"same", "value", "throw"} :
           TransformResponseDone(1, result)

SpecLoad == Init /\ [][NextLoad]_vars

\* ------------------------------------------------------------- properties
ExecutorThrew(c) == pc[c] \in {"transformRequest threw", "Encode threw"}
ExecutorError(c) == <<pc[c], <<>>>>

Resolved(c) == outcome[c] # NoOutcome
Settled(c) == delivered[c].settled # "pending"

Cancelled(o) ==
    /\ ~o.success
    /\ o.message = "cancelled"
    /\ o.grpcCode = StatusCode.CANCELLED

\* Call c holds no entry of the registry and no handle's abort slot.
OwnEntryCleared(c) ==
    /\ \A k \in Keys : cancels[k] # c
    /\ \A h \in Handles : handleAbort[h] # c

\* C1: whatever events the transport raises for a call, and however often,
\* the promise is resolved once, with the outcome of the first event; the
\* caller's promise settles at most once, with that outcome (as the
\* response transform passes it on) and nothing later replaces it.
C1_ExactlyOnce ==
    /\ [](\A c \in Calls :
            /\ count[c] > 0 => outcome[c] = listenerOutcome(first[c])
            /\ count[c] = 0 => ~Resolved(c) /\ ~Settled(c)
            /\ (Settled(c) /\ chain[c] = "done") =>
                  /\ delivered[c].settled = "fulfilled"
                  /\ [delivered[c].value EXCEPT !.transformed = FALSE]
                        = listenerOutcome(first[c])
                  /\ ~config.transformResponse =>
                        delivered[c].value = listenerOutcome(first[c]))
    /\ [][\A c \in Calls :
            /\ Resolved(c) => outcome'[c] = outcome[c]
            /\ Settled(c) => delivered'[c] = delivered[c]]_vars

\* C1 witness: a second event was raised for a call whose first event was a
\* successful load, and the caller got the load's outcome.
C1_Witness ==
    \E c \in Calls :
        /\ count[c] >= 2
        /\ first[c].type = "load"
        /\ outcome[c].success
        /\ delivered[c] = Fulfilled(outcome[c])

\* C2: a call whose executor threw (the request transform threw or
\* rejected, or Encode threw, before xhr.send) and for which no handler is
\* left to run has settled with the generic Failure carrying the raw error.
C2_ExecutorErrorResolves ==
    \A c \in Calls :
        (ExecutorThrew(c)
           /\ chain[c] \notin {"resolved", "reported", "transformResponse"})
        => delivered[c] = Fulfilled(catchError(ExecutorError(c)))

\* C3: when the response transform throws or rejects, the caller's promise
\* is fulfilled, never rejected, with the generic Failure whose data is the
\* raised error, and that result stays.
C3_TransformResponseCaught ==
    /\ [](\A c \in Calls :
            /\ delivered[c].settled # "rejected"
            /\ chain[c] = "caught" =>
                  /\ delivered[c].settled = "fulfilled"
                  /\ ~delivered[c].value.success
                  /\ delivered[c].value.message = NoMessage
                  /\ delivered[c].value.data = TransformError)
    /\ [][\A c \in Calls :
            chain[c] = "caught" => delivered'[c] = delivered[c]]_vars

\* C3 witness: the transform threw after a Success was produced.
C3_Witness ==
    \E c \in Calls : chain[c] = "caught" /\ outcome[c].success

\* C4: a call whose string key was reused by a later call while it was in
\* flight had its abort callback invoked and, once resolved, is resolved
\* with the cancelled Failure.
C4_KeyReuseCancels ==
    \A a \in Calls :
        (cancelOpt[a] \in Keys /\ replaced[a])
        => /\ abortCalled[a]
           /\ Resolved(a) => Cancelled(outcome[a])

\* C5: a call whose handle object was reused by a later call while it was
\* in flight had its abort callback invoked.
C5_HandleReuseCancels ==
    \A a \in Calls :
        (cancelOpt[a] \in Handles /\ replaced[a]) => abortCalled[a]

\* C6: a transport event for a call that is already resolved changes
\* neither an outcome, nor what a caller received, nor the registry, nor a
\* handle's abort slot.
C6_LateEventIgnored ==
    [][\A c \in Calls :
          (Resolved(c) /\ count'[c] > count[c])
          => /\ outcome' = outcome
             /\ delivered' = delivered
             /\ cancels' = cancels
             /\ handleAbort' = handleAbort]_vars

\* C7: a call is resolved only by a transport event, and resolved with the
\* cancelled Failure only when that event was abort: invoking its abort
\* callback without the transport raising abort leaves it unresolved.
C7_CancelNeedsAbortEvent ==
    \A c \in Calls :
        /\ count[c] = 0 => ~Resolved(c)
        /\ outcome[c].message = "cancelled" => first[c].type = "abort"

\* C7 witness: the abort callback was invoked, the transport raised no
\* event, and the call is unresolved.
C7_Witness ==
    \E c \in Calls : abortCalled[c] /\ count[c] = 0 /\ ~Resolved(c)

\* C8: when the first event of a call is timeout, abort or error, the call
\* holds no cancellation entry and is resolved with the Failure of that
\* event: "timeout", "cancelled" with CANCELLED, "XHR error" with
\* fromHttpStatus(status).
C8_TransportFailure ==
    \A c \in Calls :
        (count[c] > 0 /\ first[c].type \in {"timeout", "abort", "error"})
        => /\ OwnEntryCleared(c)
           /\ ~outcome[c].success
           /\ first[c].type = "timeout" => outcome[c].message = "timeout"
           /\ first[c].type = "abort" => Cancelled(outcome[c])
           /\ first[c].type = "error" =>
                 /\ outcome[c].message = "XHR error"
                 /\ outcome[c].httpStatus = first[c].xhr.status
                 /\ first[c].xhr.status = 503 =>
                       outcome[c].grpcCode = StatusCode.UNAVAILABLE
                 /\ first[c].xhr.status = 0 =>
                       outcome[c].grpcCode = StatusCode.UNKNOWN

\* C8 witness: a call that registered a key was resolved by an error event
\* with status 503.
C8_Witness ==
    \E c \in Calls :
        /\ cancelOpt[c] \in Keys
        /\ first[c].type = "error"
        /\ first[c].xhr.status = 503
        /\ Resolved(c)

\* C9: a load whose status is outside 200..299 resolves the call with
\* "XHR wrong status", that status and its gRPC code, whatever the body,
\* the headers and the trailers are: 404 gives NOT_FOUND, 418 UNKNOWN.
C9_WrongStatus ==
    \A c \in Calls :
        (count[c] > 0 /\ first[c].type = "load"
           /\ (first[c].xhr.status < 200 \/ first[c].xhr.status > 299))
        => /\ ~outcome[c].success
           /\ outcome[c].message = "XHR wrong status"
           /\ outcome[c].httpStatus = first[c].xhr.status
           /\ first[c].xhr.status = 404 =>
                 outcome[c].grpcCode = StatusCode.NOT_FOUND
           /\ first[c].xhr.status = 503 =>
                 outcome[c].grpcCode = StatusCode.UNAVAILABLE
           /\ first[c].xhr.status \in {0, 199, 300, 418, 500} =>
                 outcome[c].grpcCode = StatusCode.UNKNOWN

\* C9 witness: a 404 whose body holds a Message frame and OK trailers.
C9_Witness ==
    \E c \in Calls :
        /\ first[c].type = "load"
        /\ first[c].xhr.status = 404
        /\ first[c].xhr.readable
        /\ first[c].xhr.body = MessageFrame \o TrailersOk
        /\ Resolved(c)

\* C10: a load with a 2xx status whose body is empty or unreadable resolves
\* the call with the Failure "GRPC no bytes".
C10_NoBytes ==
    \A c \in Calls :
        (count[c] > 0 /\ first[c].type = "load"
           /\ first[c].xhr.status >= 200 /\ first[c].xhr.status <= 299
           /\ (first[c].xhr.body = <<>> \/ ~first[c].xhr.readable))
        => /\ ~outcome[c].success
           /\ outcome[c].message = "GRPC no bytes"

\* C10 witness: a 200 with a readable body of zero bytes.
C10_Witness ==
    \E c \in Calls :
        /\ first[c].type = "load"
        /\ first[c].xhr.status = 200
        /\ first[c].xhr.readable
        /\ first[c].xhr.body = <<>>
        /\ Resolved(c)

\* The first event of call c is a load with a 2xx status and a readable,
\* non-empty body; Frames(c) is what the parser makes of that body.
LoadedOk(c) ==
    /\ count[c] > 0
    /\ first[c].type = "load"
    /\ first[c].xhr.status >= 200 /\ first[c].xhr.status <= 299
    /\ first[c].xhr.readable
    /\ first[c].xhr.body # <<>>

Frames(c) == chunkParse(first[c].xhr.body)

FirstIs(c, chunkType) ==
    /\ LoadedOk(c)
    /\ Frames(c).ok
    /\ Len(Frames(c).chunks) >= 1
    /\ Frames(c).chunks[1].chunkType = chunkType

\* C11 as stated: on a 2xx load whose body parses into frames with a Message
\* frame first, the call resolves to Success with the decoded payload of
\* that frame, whatever the payload.
C11_MessageFirstAlwaysSuccess ==
    \A c \in Calls :
        FirstIs(c, MESSAGE)
        => outcome[c] = Success(Decode(Frames(c).chunks[1].data))

\* C11 amended: on a 2xx load whose body parses into frames with a Message
\* frame first, the call resolves to Success with the decoded payload of
\* that frame when the codec accepts the payload, and to the Failure
\* "Decode error" when the codec throws; a Message frame followed by
\* Trailers with grpc-status 0 yields Success of the decoded message.
C11_MessageFirst ==
    \A c \in Calls :
        /\ FirstIs(c, MESSAGE)
           => LET payload == Frames(c).chunks[1].data
              IN  IF DecodeThrows(payload)
                  THEN /\ ~outcome[c].success
                       /\ outcome[c].message = "Decode error"
                       /\ outcome[c].httpStatus = first[c].xhr.status
                  ELSE outcome[c] = Success(Decode(payload))
        /\ (LoadedOk(c) /\ first[c].xhr.body = MessageFrame \o TrailersOk)
           => outcome[c] = Success(<<"decoded", <<7>>>>)

\* C11 witness: a 200 whose body is a Message frame then OK trailers has
\* resolved the call to Success.
C11_Witness ==
    \E c \in Calls :
        /\ LoadedOk(c)
        /\ first[c].xhr.status = 200
        /\ first[c].xhr.body = MessageFrame \o TrailersOk
        /\ outcome[c].success

\* C12: on a 2xx load whose first frame is Trailers the call resolves to a
\* Failure whose message is the grpc-message trailer ("" when absent) and
\* whose grpcCode, when grpc-status is present, is its number if that is a
\* valid non-negative number and fromHttpStatus(status) otherwise; trailers
\* grpc-status 3, grpc-message "bad arg" give Failure "bad arg" with code 3.
C12_TrailersFirst ==
    \A c \in Calls :
        /\ FirstIs(c, TRAILERS)
           => LET trailers == Frames(c).chunks[1].trailers
              IN  /\ ~outcome[c].success
                  /\ outcome[c].message =
                        (IF GRPC_MESSAGE \in DOMAIN trailers
                         THEN trailers[GRPC_MESSAGE] ELSE "")
                  /\ GRPC_STATUS \in DOMAIN trailers
                     => outcome[c].grpcCode =
                           (IF trailers[GRPC_STATUS] \in {"0", "3"}
                            THEN Number(trailers[GRPC_STATUS])
                            ELSE fromHttpStatus(first[c].xhr.status))
        /\ (LoadedOk(c) /\ first[c].xhr.body =
               Frame(TRAILER_BIT, <<1, COLON, 51, NL, 2, COLON, 109>>))
           => /\ ~outcome[c].success
              /\ outcome[c].message = "bad arg"
              /\ outcome[c].grpcCode = 3
        /\ (LoadedOk(c) /\ first[c].xhr.body = TrailersOk \o MessageFrame)
           => /\ ~outcome[c].success
              /\ outcome[c].grpcCode = 0
        /\ (LoadedOk(c) /\ first[c].xhr.body \in
               { Frame(TRAILER_BIT, <<1, COLON, 45>>),
                 Frame(TRAILER_BIT, <<1, COLON, 120, NL, 2, COLON, 109>>) })
           => /\ ~outcome[c].success
              /\ outcome[c].grpcCode = fromHttpStatus(first[c].xhr.status)

\* C12 witness: a 200 whose only frame is Trailers with grpc-status 3 and
\* grpc-message "bad arg" has resolved the call.
C12_Witness ==
    \E c \in Calls :
        /\ LoadedOk(c)
        /\ first[c].xhr.body =
              Frame(TRAILER_BIT, <<1, COLON, 51, NL, 2, COLON, 109>>)
        /\ outcome[c].message = "bad arg"
        /\ outcome[c].grpcCode = 3

\* C13: when the deciding Trailers frame carries no grpc-status key at all,
\* the grpcCode of the Failure is fromHttpStatus(status) of the response.
C13_NoStatusKeyFallsBack ==
    \A c \in Calls :
        (FirstIs(c, TRAILERS)
           /\ GRPC_STATUS \notin DOMAIN Frames(c).chunks[1].trailers)
        => /\ ~outcome[c].success
           /\ outcome[c].grpcCode = fromHttpStatus(first[c].xhr.status)

\* C14: a 2xx load whose body yields no frame resolves to a Failure built
\* from the response headers: with a grpc-status header, the message is the
\* grpc-message header ("" when absent) and grpcCode the number of
\* grpc-status; without it, the message is "Failed to parse GRPC status"
\* and grpcCode is absent. It is never Success.
C14_ZeroFrames ==
    \A c \in Calls :
        (LoadedOk(c) /\ Frames(c).ok /\ Len(Frames(c).chunks) = 0)
        => LET headers == first[c].xhr.headers
           IN  /\ ~outcome[c].success
               /\ outcome[c].httpStatus = first[c].xhr.status
               /\ GRPC_STATUS \in DOMAIN headers
                  => /\ outcome[c].message =
                           (IF GRPC_MESSAGE \in DOMAIN headers
                            THEN headers[GRPC_MESSAGE] ELSE "")
                     /\ headers[GRPC_STATUS] = "3"
                        => outcome[c].grpcCode = 3
                     /\ headers[GRPC_STATUS] = "abc"
                        => outcome[c].grpcCode = NaN
               /\ GRPC_STATUS \notin DOMAIN headers
                  => /\ outcome[c].message = "Failed to parse GRPC status"
                     /\ outcome[c].grpcCode = Absent

\* C14 witness: a 200 whose one-byte body declares no frame, with response
\* headers grpc-status 3 and grpc-message "bad arg", has resolved the call.
C14_Witness ==
    \E c \in Calls :
        /\ LoadedOk(c)
        /\ first[c].xhr.body = <<0>>
        /\ GRPC_STATUS \in DOMAIN first[c].xhr.headers
        /\ outcome[c].message = "bad arg"
        /\ outcome[c].grpcCode = 3

\* C15: a 2xx load whose body ends inside a declared frame resolves to the
\* Failure "GRPC parsing error"; the complete frames before the truncation
\* are not turned into a Success.
C15_Truncated ==
    \A c \in Calls :
        /\ (LoadedOk(c) /\ ~Frames(c).ok)
           => /\ ~outcome[c].success
              /\ outcome[c].message = "GRPC parsing error"
        /\ (LoadedOk(c) /\ first[c].xhr.body \in
               { <<0, 0, 0, 0, 2, 7>>,
                 MessageFrame \o <<TRAILER_BIT, 0, 0, 1, 0, 1>> })
           => /\ ~outcome[c].success
              /\ outcome[c].message = "GRPC parsing error"

\* C15 witness: a 200 whose body is a complete Message frame followed by a
\* Trailers frame cut short has resolved the call.
C15_Witness ==
    \E c \in Calls :
        /\ LoadedOk(c)
        /\ first[c].xhr.body = MessageFrame \o <<TRAILER_BIT, 0, 0, 1, 0, 1>>
        /\ Resolved(c)

\* C18: before any response transform, the outcome is Success only if the
\* first event was a load with a status in 200..299, a non-empty body that
\* parsed into at least one frame, a Message frame first and a payload the
\* codec accepted; a call whose first event is timeout, abort or error
\* never yields Success.
C18_SuccessOnlyIf ==
    \A c \in Calls :
        /\ outcome[c].success
           => /\ count[c] > 0
              /\ first[c].type = "load"
              /\ first[c].xhr.status \in 200..299
              /\ first[c].xhr.readable
              /\ Len(first[c].xhr.body) >= HEADER_SIZE
              /\ first[c].xhr.body[1] < TRAILER_BIT
              /\ Frames(c).ok
              /\ ~DecodeThrows(Frames(c).chunks[1].data)
        /\ (count[c] > 0 /\ first[c].type \in {"timeout", "abort", "error"})
           => /\ Resolved(c)
              /\ ~outcome[c].success

\* C18 witness: a call whose first event was an error, followed by a later
\* event, is resolved and not a Success.
C18_Witness ==
    \E c \in Calls :
        /\ count[c] > 1
        /\ first[c].type = "error"
        /\ Resolved(c)
        /\ ~outcome[c].success

\* The calls started so far that passed key k as their cancel option.
UsersOf(k) == {c \in 1..started : cancelOpt[c] = k}

\* C16: for every key k, the registry entry for k, if present, is the abort
\* callback of the most recently started call that used k, and that call
\* has not resolved.
C16_RegistryHoldsLatest ==
    \A k \in Keys :
        cancels[k] # 0
        => /\ cancels[k] \in UsersOf(k)
           /\ \A c \in UsersOf(k) : c <= cancels[k]
           /\ ~Resolved(cancels[k])

\* C16 witness: key k was used by call 1, which has resolved, and reused by
\* call 2, whose callback the registry now holds.
C16_Witness ==
    /\ cancelOpt[1] = "k"
    /\ Resolved(1)
    /\ cancels["k"] = 2
    /\ pc[2] = "sent"

\* C17: with the devtool enabled, a call that produced an outcome is
\* reported exactly once, as a 'unary' report carrying the request as sent
\* after the request transform and that outcome, Success or Failure, before
\* the response transform runs and whether or not it throws; without the
\* devtool, and before the outcome, nothing is reported.
C17_ReportedOnce ==
    \A c \in Calls :
        /\ Len(reports[c]) <= 1
        /\ (config.devtool
              /\ chain[c] \in {"reported", "transformResponse", "done",
                               "caught"})
           => /\ Resolved(c)
              /\ reports[c] = <<[methodType |-> "unary",
                                 request |-> sendData[c],
                                 outcome |-> outcome[c]]>>
        /\ (~config.devtool \/ chain[c] \in {"pending", "resolved"})
           => reports[c] = <<>>

\* C17 witness: a Failure was reported and the response transform threw
\* afterwards.
C17_Witness ==
    \E c \in Calls :
        /\ config.devtool
        /\ chain[c] = "caught"
        /\ Len(reports[c]) = 1
        /\ ~reports[c][1].outcome.success
        /\ reports[c][1].request # "values"

\* C19: the first terminal event of a call a removes no entry of another,
\* later call b that is under way and still unresolved: neither b's
\* registry entry nor b's callback in a shared handle.
C19_RemovesOnlyOwnEntry ==
    [][\A a, b \in Calls :
          (a < b /\ count[a] = 0 /\ count'[a] = 1
             /\ pc[b] \in {"transformRequest", "sent"}
             /\ outcome'[b] = NoOutcome)
          => /\ \A k \in Keys : cancels[k] = b => cancels'[k] = b
             /\ \A h \in Handles : handleAbort[h] = b => handleAbort'[h] = b
      ]_vars

\* C20: a call whose abort callback was invoked before any terminal event
\* is not sent afterwards, and when it resolves it resolves with the
\* cancelled Failure.
C20_CancelAlwaysCancels ==
    \A c \in Calls :
        /\ (abortCalled[c] /\ count[c] = 0) => pc[c] # "sent"
        /\ (abortCalled[c] /\ Resolved(c)) => Cancelled(outcome[c])

====
